---- MODULE Spec2Model ----
(***************************************************************************)
(* Model of the download manager of phyrexian-library                      *)
(* (src/src/utility/download.rs): the registry of download states, the     *)
(* fixed-size worker pool, the transfer routine download_to_file and the   *)
(* read-only handles (DownloadProxy).                                      *)
(*                                                                         *)
(* One caller thread owns the DownloadManager (download and remove_failed  *)
(* take &mut self), so manager calls never overlap each other; they do     *)
(* overlap the workers, which only share the Arc<Mutex<Download>> states.  *)
(* Every step of an action touches at most one lock-protected state, which *)
(* is the granularity at which the code's lock() calls interleave.         *)
(*                                                                         *)
(* The filesystem the routine writes to is the variable fs: the set of     *)
(* directories that exist and the length of the file at every path.        *)
(***************************************************************************)
EXTENDS Naturals, Integers, Sequences, FiniteSets, TLC

\* ------------------------------------------------------------------ bounds

\* Number of download() calls explored by Spec.
MaxDownloads == 2

\* Number of download() calls explored by SpecPool (more than the pool has threads).
MaxPoolDownloads == 5

\* Largest number of bytes one response stream delivers.
MaxBytes == 1

\* Number of download() calls explored by SpecFile.
MaxFileDownloads == 1

\* Number of download() calls explored by SpecHandle.
MaxHandleDownloads == 1

\* Largest length of a file that exists at the output path before the transfer.
MaxPriorLen == 2

\* PartialRangeIter: the values and the chunk sizes explored (u32 in the code)
MaxRangeValue == 11
MaxChunkSize == 3

\* ------------------------------------------------------- program constants

\* const DOWNLOAD_MANAGER_NUMBER_OF_THREADS: usize = 4;
DOWNLOAD_MANAGER_NUMBER_OF_THREADS == 4

\* const DOWNLOAD_SPEED_INTERVAL = 200 ms, here the unit of elapsed time.
DOWNLOAD_SPEED_INTERVAL == 1

\* ------------------------------------------------------------------ inputs

\* Output paths handed to download(): a file, an existing directory, the empty path.
Paths == {"/a", "/dir", ""}

\* Output paths handed to download() by SpecFile: a file in an existing directory,
\* an existing directory, a file in a directory that does not exist yet.
FilePaths == {"/a", "/dir", "/new/b"}

\* Links handed to download(): one that into_url() rejects, one it accepts.
Links == {"not a url", "http://host/file"}

\* Lengths a successful read of the response can return (0 is end of stream).
ChunkLens == {1}

\* Elapsed times t_start.elapsed() can report, in units of the interval.
Elapsed == {0, 1}

\* Status codes a response can carry, as StatusCode formats them with {:?}.
StatusCodes == {"200", "404", "500"}

\* Values of the content-length header a response can carry, as characters.
ContentLengthValues == {<<>>, <<"1">>, <<"+", "1">>, <<"-", "1">>, <<"1", "x">>, <<"0x80">>}

\* headers().get(CONTENT_LENGTH): the header is absent, or present with a value.
ContentLengthHeaders ==
    {[present |-> FALSE, value |-> <<>>]}
        \cup {[present |-> TRUE, value |-> v] : v \in ContentLengthValues}

VARIABLES
    downloads,  \* DownloadManager.downloads: path -> Arc<Mutex<Download>> (an index of states)
    states,     \* every Download ever allocated, by allocation index
    pool,       \* DownloadManager.pool: the spawned closures no worker has taken yet
    task,       \* per spawned closure: where download_to_file stands, and its locals
    call,       \* the manager call the caller thread is inside of, if any
    proxy,      \* the DownloadProxy the caller got from its last get_download()
    seen,       \* what the caller's queries on that DownloadProxy have returned
    writes,     \* per state: how often a terminal status was assigned to it
    fs,         \* the filesystem: the directories that exist, the length of every file
    range_iter  \* a PartialRangeIter of the earlier revision, and what it has yielded

vars == <<downloads, states, pool, task, call, proxy, seen, writes, fs, range_iter>>

\* --------------------------------------------------- DownloadStatus, Download

NoError == [kind |-> "None", at |-> "None"]

\* enum DownloadError { IoError(io::Error), ReqwestError(reqwest::Error) }
IoError(at) == [kind |-> "IoError", at |-> at]
ReqwestError(at) == [kind |-> "ReqwestError", at |-> at]

\* enum DownloadStatus { Successful, Failed(Arc<DownloadError>), Pending, Running }
Pending == [tag |-> "Pending", error |-> NoError]
Running == [tag |-> "Running", error |-> NoError]
Successful == [tag |-> "Successful", error |-> NoError]
Failed(err) == [tag |-> "Failed", error |-> err]

is_pending(status) == status.tag = "Pending"
is_running(status) == status.tag = "Running"
\* is_successful as if it matched every variant but Failed
is_successful_not_failed(status) == status.tag # "Failed"

is_successful(status) == status.tag = "Successful"
\* is_failed as if it also matched Successful
is_failed_or_successful(status) == status.tag \in {"Failed", "Successful"}

is_failed(status) == status.tag = "Failed"

\* impl From<io::Error> for DownloadError
DownloadError_from_io_Error(error) == IoError(error)

\* impl From<io::Error> for DownloadStatus
DownloadStatus_from_io_Error(error) == Failed(DownloadError_from_io_Error(error))

\* Option<T>: None is the empty sequence, Some(x) the sequence of x.
None == <<>>
Some(x) == <<x>>

\* get_error as if it returned the payload of any status
get_error_any(status) == Some(status.error)

\* DownloadStatus::get_error
get_error(status) == IF status.tag = "Failed" THEN Some(status.error) ELSE None

\* Download::pending() as if it created the state Running
Download_pending_running ==
    [status |-> Running, downloaded_size |-> 0, total_size |-> None, speed |-> 0]

\* Download::pending()
Download_pending ==
    [status |-> Pending, downloaded_size |-> 0, total_size |-> None, speed |-> 0]

get_downloaded_size(d) == d.downloaded_size
\* get_download_speed as if it returned the stored speed whatever the status
get_download_speed_any(d) == Some(d.speed)

\* Download::get_download_speed
get_download_speed(d) == IF d.status.tag = "Running" THEN Some(d.speed) ELSE None

Ids == 1..Len(states)

\* ------------------------------------------------------------ DownloadManager

\* size() as if it counted the entries that are Pending or Running only
size_active ==
    Cardinality({p \in DOMAIN downloads :
                    states[downloads[p]].status.tag \in {"Pending", "Running"}})

\* DownloadManager::size
size == Cardinality(DOMAIN downloads)

\* The caller thread is between two manager calls.
Idle == [op |-> "idle", phase |-> "idle", todo |-> {}, failed |-> {},
         before |-> <<>>, result |-> FALSE]

\* No handle: get_download() was not called yet, or it returned None.
NoProxy == 0

\* The caller has asked nothing of its handle yet: the predicate that last
\* returned true, what get_download_speed() last returned, what
\* get_downloaded_size() last returned (None: not asked), the query asked last
NotSeen == [status |-> "none", speed |-> None, size |-> None, last |-> "none"]

\* A worker of the pool is inside the closure of this task
Busy(id) == task[id].pc \notin {"spawned", "done"}

\* No closure has panicked: the process is running
Alive == \A id \in Ids : task[id].pc # "aborted"

\* Task id stands at one of the statements pcs of download_to_file
At(id, pcs) == id \in Ids /\ Alive /\ task[id].pc \in pcs

\* Every path of the model, and the directories that exist from the beginning
AllPaths == Paths \cup FilePaths
ExistingDirs == {"/", "/dir"}

\* PartialRangeIter::new: the fields, with the starting value and the items
\* yielded so far kept beside them, and whether the last next() returned None
PartialRangeIter_new(starting_value, max_value, chunk_size) ==
    [chunk_size |-> chunk_size, max_length |-> max_value, val |-> starting_value,
     starting_value |-> starting_value, items |-> <<>>, none |-> FALSE]

\* No PartialRangeIter is in use: the download manager does not have one
NoRangeIter == PartialRangeIter_new(1, 0, 1)

\* The decimal digits "{}" formats an unsigned integer with
DigitChar == <<"0", "1", "2", "3", "4", "5", "6", "7", "8", "9">>

RECURSIVE to_string(_)
to_string(n) ==
    IF n < 10 THEN <<DigitChar[n + 1]>>
    ELSE to_string(n \div 10) \o <<DigitChar[(n % 10) + 1]>>

\* format!("{}-{}", lo, hi)
format_range(lo, hi) == to_string(lo) \o <<"-">> \o to_string(hi)

\* DownloadManager::new, on a filesystem without files
Init ==
    /\ downloads = <<>>
    /\ states = <<>>
    /\ pool = <<>>
    /\ task = <<>>
    /\ call = Idle
    /\ proxy = NoProxy
    /\ seen = NotSeen
    /\ writes = <<>>
    /\ fs = [dirs |-> ExistingDirs, files |-> [p \in AllPaths |-> None]]
    /\ range_iter = NoRangeIter

\* download() as if it kept the entry a path already has
download_keeps_entry(link, output, max) ==
    /\ Alive
    /\ call = Idle
    /\ Len(states) < max
    /\ LET id == Len(states) + 1 IN
        /\ states' = Append(states, Download_pending)
        /\ downloads' = [p \in DOMAIN downloads \cup {output} |->
                            IF p \in DOMAIN downloads THEN downloads[p] ELSE id]
        /\ pool' = Append(pool, id)
        /\ task' = Append(task, [pc |-> "spawned", link |-> link, output |-> output,
                                 written |-> 0, written_update |-> 0, length |-> 0,
                                 consumed |-> 0])
        /\ writes' = Append(writes, 0)
    /\ UNCHANGED <<call, proxy, seen, fs, range_iter>>

\* download() as if it waited for a free thread of the pool
download_waits(link, output, max) ==
    /\ Cardinality({i \in Ids : Busy(i)}) < DOWNLOAD_MANAGER_NUMBER_OF_THREADS
    /\ download_keeps_entry(link, output, max)
    /\ downloads' = [p \in DOMAIN downloads \cup {output} |->
                        IF p = output THEN Len(states) + 1 ELSE downloads[p]]

\* download() as if it refused a path whose registered transfer has not ended
download_serialized(link, output, max) ==
    /\ output \in DOMAIN downloads
         => states[downloads[output]].status.tag \in {"Successful", "Failed"}
    /\ download_keeps_entry(link, output, max)
    /\ downloads' = [p \in DOMAIN downloads \cup {output} |->
                        IF p = output THEN Len(states) + 1 ELSE downloads[p]]

\* DownloadManager::download, with at most max calls explored
download(link, output, max) ==
    /\ Alive
    /\ call = Idle
    /\ Len(states) < max
    /\ LET id == Len(states) + 1 IN
        /\ states' = Append(states, Download_pending)
        /\ downloads' = [p \in DOMAIN downloads \cup {output} |->
                            IF p = output THEN id ELSE downloads[p]]
        /\ pool' = Append(pool, id)
        /\ task' = Append(task, [pc |-> "spawned", link |-> link, output |-> output,
                                 written |-> 0, written_update |-> 0, length |-> 0,
                                 consumed |-> 0])
        /\ writes' = Append(writes, 0)
    /\ UNCHANGED <<call, proxy, seen, fs, range_iter>>

\* DownloadManager::get_download: Some(proxy) as the index of its state, None as 0
get_download(path) ==
    /\ Alive
    /\ call = Idle
    /\ proxy' = IF path \in DOMAIN downloads THEN downloads[path] ELSE 0
    /\ seen' = NotSeen
    /\ UNCHANGED <<downloads, states, pool, task, call, writes, fs, range_iter>>

\* The predicates of DownloadProxy, by the variant they test for
ProxyPredicates == {"Pending", "Running", "Successful", "Failed"}

\* self.download.lock().status.is_pending() / is_running() / is_successful() / is_failed()
proxy_is(name, d) ==
    CASE name = "Pending" -> is_pending(d.status)
      [] name = "Running" -> is_running(d.status)
      [] name = "Successful" -> is_successful(d.status)
      [] name = "Failed" -> is_failed(d.status)

\* DownloadProxy::is_pending / is_running / is_successful / is_failed: one lock
\* of the state, one test of its status; the caller notes a predicate that held
proxy_status_query(name) ==
    /\ Alive
    /\ call = Idle
    /\ proxy \in Ids
    /\ seen' = [seen EXCEPT !.last = name,
                            !.status = IF proxy_is(name, states[proxy]) THEN name ELSE @]
    /\ UNCHANGED <<downloads, states, pool, task, call, proxy, writes, fs, range_iter>>

\* get_download_speed() of the handle as if it answered from the status the
\* handle saw last instead of the status under the lock
proxy_get_download_speed_cached ==
    /\ Alive
    /\ call = Idle
    /\ proxy \in Ids
    /\ seen' = [seen EXCEPT !.last = "speed",
                            !.speed = IF seen.status = "Running"
                                      THEN Some(states[proxy].speed) ELSE None]
    /\ UNCHANGED <<downloads, states, pool, task, call, proxy, writes, fs, range_iter>>

\* DownloadProxy::get_download_speed: self.download.lock().get_download_speed()
proxy_get_download_speed ==
    /\ Alive
    /\ call = Idle
    /\ proxy \in Ids
    /\ seen' = [seen EXCEPT !.last = "speed",
                            !.speed = get_download_speed(states[proxy])]
    /\ UNCHANGED <<downloads, states, pool, task, call, proxy, writes, fs, range_iter>>

\* DownloadProxy::get_downloaded_size: self.download.lock().get_downloaded_size()
proxy_get_downloaded_size ==
    /\ Alive
    /\ call = Idle
    /\ proxy \in Ids
    /\ seen' = [seen EXCEPT !.last = "size",
                            !.size = Some(get_downloaded_size(states[proxy]))]
    /\ UNCHANGED <<downloads, states, pool, task, call, proxy, writes, fs, range_iter>>

\* The registry as the call found it: per path the state and its status
Snapshot ==
    [p \in DOMAIN downloads |->
        [download |-> downloads[p], tag |-> states[downloads[p]].status.tag]]

\* The status test of has_active as if the Running arm were missing
has_active_match_pending(status) == status.tag = "Pending"

\* The status test of has_active on one locked state
has_active_match(status) == status.tag \in {"Pending", "Running"}

\* DownloadManager::has_active, entry: the loop over downloads.values() begins
has_active_call ==
    /\ Alive
    /\ call = Idle
    /\ call' = IF downloads = <<>>
               THEN [Idle EXCEPT !.op = "has_active", !.phase = "return"]
               ELSE [Idle EXCEPT !.op = "has_active", !.phase = "scan",
                                 !.todo = DOMAIN downloads]
    /\ UNCHANGED <<downloads, states, pool, task, proxy, seen, writes, fs, range_iter>>

\* The iteration of has_active as if the routine kept the lock of its state
\* across its request, its reads and its file operations
has_active_step_blocked ==
    /\ Alive
    /\ call.op = "has_active"
    /\ call.phase = "scan"
    /\ \E p \in call.todo :
         /\ task[downloads[p]].pc \notin {"get", "create_dir_all", "open", "read", "write_all"}
         /\ call' = IF has_active_match(states[downloads[p]].status)
                    THEN [call EXCEPT !.phase = "return", !.result = TRUE, !.todo = {}]
                    ELSE IF call.todo = {p}
                    THEN [call EXCEPT !.phase = "return", !.result = FALSE, !.todo = {}]
                    ELSE [call EXCEPT !.todo = @ \ {p}]
    /\ UNCHANGED <<downloads, states, pool, task, proxy, seen, writes, fs, range_iter>>

\* The iteration of has_active as if the first state looked at decided the result
has_active_step_first ==
    /\ Alive
    /\ call.op = "has_active"
    /\ call.phase = "scan"
    /\ \E p \in call.todo :
         call' = [call EXCEPT !.phase = "return", !.todo = {},
                              !.result = has_active_match(states[downloads[p]].status)]
    /\ UNCHANGED <<downloads, states, pool, task, proxy, seen, writes, fs, range_iter>>

\* DownloadManager::has_active, one iteration: match val.lock().status
has_active_step ==
    /\ Alive
    /\ call.op = "has_active"
    /\ call.phase = "scan"
    /\ \E p \in call.todo :
         call' = IF has_active_match(states[downloads[p]].status)
                 THEN [call EXCEPT !.phase = "return", !.result = TRUE, !.todo = {}]
                 ELSE IF call.todo = {p}
                 THEN [call EXCEPT !.phase = "return", !.result = FALSE, !.todo = {}]
                 ELSE [call EXCEPT !.todo = @ \ {p}]
    /\ UNCHANGED <<downloads, states, pool, task, proxy, seen, writes, fs, range_iter>>

\* DownloadManager::remove_failed, entry: the first loop over downloads.values() begins
remove_failed_call ==
    /\ Alive
    /\ call = Idle
    /\ call' = IF downloads = <<>>
               THEN [Idle EXCEPT !.op = "remove_failed", !.phase = "return"]
               ELSE [Idle EXCEPT !.op = "remove_failed", !.phase = "scan",
                                 !.todo = DOMAIN downloads, !.before = Snapshot]
    /\ UNCHANGED <<downloads, states, pool, task, proxy, seen, writes, fs, range_iter>>

\* The test of the first loop of remove_failed on one locked state
remove_failed_match(status) == status.tag = "Failed"

\* DownloadManager::remove_failed, first loop: push a proxy of the state if it is Failed
remove_failed_scan ==
    /\ Alive
    /\ call.op = "remove_failed"
    /\ call.phase = "scan"
    /\ \E p \in call.todo :
         LET failed == IF remove_failed_match(states[downloads[p]].status)
                       THEN call.failed \cup {downloads[p]} ELSE call.failed
         IN call' = IF call.todo = {p}
                    THEN [call EXCEPT !.phase = "retain", !.todo = DOMAIN downloads,
                                      !.failed = failed]
                    ELSE [call EXCEPT !.todo = @ \ {p}, !.failed = failed]
    /\ UNCHANGED <<downloads, states, pool, task, proxy, seen, writes, fs, range_iter>>

\* retain as if it dropped every entry whose transfer has ended
remove_failed_retain_ended ==
    /\ Alive
    /\ call.op = "remove_failed"
    /\ call.phase = "retain"
    /\ \E p \in call.todo :
         /\ call' = IF call.todo = {p}
                    THEN [call EXCEPT !.phase = "return", !.todo = {}]
                    ELSE [call EXCEPT !.todo = @ \ {p}]
         /\ downloads' = IF states[downloads[p]].status.tag \in {"Failed", "Successful"}
                         THEN [q \in DOMAIN downloads \ {p} |-> downloads[q]]
                         ELSE downloads
    /\ UNCHANGED <<states, pool, task, proxy, seen, writes, fs, range_iter>>

\* DownloadManager::remove_failed, downloads.retain(|_, value| !value.lock().status.is_failed())
remove_failed_retain ==
    /\ Alive
    /\ call.op = "remove_failed"
    /\ call.phase = "retain"
    /\ \E p \in call.todo :
         /\ call' = IF call.todo = {p}
                    THEN [call EXCEPT !.phase = "return", !.todo = {}]
                    ELSE [call EXCEPT !.todo = @ \ {p}]
         /\ downloads' = IF is_failed(states[downloads[p]].status)
                         THEN [q \in DOMAIN downloads \ {p} |-> downloads[q]]
                         ELSE downloads
    /\ UNCHANGED <<states, pool, task, proxy, seen, writes, fs, range_iter>>

\* The caller takes the value has_active or remove_failed returned
return ==
    /\ Alive
    /\ call.phase = "return"
    /\ call' = Idle
    /\ UNCHANGED <<downloads, states, pool, task, proxy, seen, writes, fs, range_iter>>

\* ------------------------------------------------------------ download_to_file

\* fail_download as if it wrote the state registered for the routine's path
fail_download_registered(failure, id) ==
    LET target == IF task[id].output \in DOMAIN downloads
                  THEN downloads[task[id].output] ELSE id
    IN /\ states' = [states EXCEPT ![target].status = Failed(failure)]
       /\ writes' = [writes EXCEPT ![target] = @ + 1]

\* fail_download as if it stored a fresh Download with the Failed status
fail_download_fresh(failure, id) ==
    /\ states' = [states EXCEPT ![id] = [Download_pending EXCEPT !.status = Failed(failure)]]
    /\ writes' = [writes EXCEPT ![id] = @ + 1]

\* fail_download
fail_download(failure, id) ==
    /\ states' = [states EXCEPT ![id].status = Failed(failure)]
    /\ writes' = [writes EXCEPT ![id] = @ + 1]

\* An error arm as if its return were missing
Fail_no_return(failure, id) ==
    /\ fail_download(failure, id)
    /\ UNCHANGED task

\* An error arm as if it started the routine over instead of returning
Fail_restarts(failure, id) ==
    /\ fail_download(failure, id)
    /\ task' = [task EXCEPT ![id].pc = "into_url"]

\* An error arm of the routine: fail_download(..); return;
Fail(failure, id) ==
    /\ fail_download(failure, id)
    /\ task' = [task EXCEPT ![id].pc = "done"]

\* The routine moves on to its next statement without a write to its state
Goto(id, pc) ==
    /\ task' = [task EXCEPT ![id].pc = pc]
    /\ UNCHANGED <<states, writes>>

\* link.into_url()
into_url_ok(link) == link # "not a url"

\* output.is_dir()
is_dir(output) == output \in fs.dirs

DigitValue ==
    [c \in {"0", "1", "2", "3", "4", "5", "6", "7", "8", "9"} |->
        CASE c = "0" -> 0 [] c = "1" -> 1 [] c = "2" -> 2 [] c = "3" -> 3 [] c = "4" -> 4
          [] c = "5" -> 5 [] c = "6" -> 6 [] c = "7" -> 7 [] c = "8" -> 8 [] c = "9" -> 9]

RECURSIVE DigitsValue(_)
DigitsValue(digits) ==
    IF digits = <<>> THEN 0
    ELSE DigitsValue(SubSeq(digits, 1, Len(digits) - 1)) * 10 + DigitValue[digits[Len(digits)]]

\* u64::from_str: Ok(n) as Some(n), every Err as None. The headers explored have
\* few digits, so the overflow error of from_str is not among the cases.
u64_from_str(str) ==
    LET digits == IF str # <<>> /\ str[1] = "+" THEN Tail(str) ELSE str IN
    IF /\ digits # <<>>
       /\ \A i \in 1..Len(digits) : digits[i] \in DOMAIN DigitValue
    THEN Some(DigitsValue(digits))
    ELSE None

\* HeaderValue::to_str succeeds on visible ASCII only
to_str_ok(value) == \A i \in 1..Len(value) : value[i] # "0x80"

\* The length the if-let of the content-length header binds, if it matches
content_length(header) ==
    IF header.present /\ to_str_ok(header.value) THEN u64_from_str(header.value) ELSE None

\* Start as if the pool had a thread for every closure
Start_unbounded(id) ==
    /\ Alive
    /\ pool # <<>>
    /\ Head(pool) = id
    /\ pool' = Tail(pool)
    /\ states' = [states EXCEPT ![id].status = Running]
    /\ task' = [task EXCEPT ![id].pc = "into_url"]
    /\ UNCHANGED <<downloads, call, proxy, seen, writes, fs, range_iter>>

\* Start as if the closure looked its state up in the registry by its path
Start_registered(id) ==
    /\ Alive
    /\ pool # <<>>
    /\ Head(pool) = id
    /\ Cardinality({i \in Ids : Busy(i)}) < DOWNLOAD_MANAGER_NUMBER_OF_THREADS
    /\ pool' = Tail(pool)
    /\ states' = [states EXCEPT ![IF task[id].output \in DOMAIN downloads
                                   THEN downloads[task[id].output] ELSE id].status = Running]
    /\ task' = [task EXCEPT ![id].pc = "into_url"]
    /\ UNCHANGED <<downloads, call, proxy, seen, writes, fs, range_iter>>

\* A worker takes the oldest spawned closure; download.lock().status = Running
Start(id) ==
    /\ Alive
    /\ pool # <<>>
    /\ Head(pool) = id
    /\ Cardinality({i \in Ids : Busy(i)}) < DOWNLOAD_MANAGER_NUMBER_OF_THREADS
    /\ pool' = Tail(pool)
    /\ states' = [states EXCEPT ![id].status = Running]
    /\ task' = [task EXCEPT ![id].pc = "into_url"]
    /\ UNCHANGED <<downloads, call, proxy, seen, writes, fs, range_iter>>

\* let url = match link.into_url()
IntoUrl(id) ==
    /\ At(id, {"into_url"})
    /\ IF into_url_ok(task[id].link)
       THEN Goto(id, "get")
       ELSE Fail(ReqwestError("into_url"), id)
    /\ UNCHANGED <<downloads, pool, call, proxy, seen, fs, range_iter>>

\* The request as if its error were reported as an I/O error
Get_as_io(id) ==
    /\ At(id, {"get"})
    /\ \/ Goto(id, "status")
       \/ Fail(IoError("get"), id)
    /\ UNCHANGED <<downloads, pool, call, proxy, seen, fs, range_iter>>

\* let mut response = match reqwest::get(url)
Get(id) ==
    /\ At(id, {"get"})
    /\ \/ Goto(id, "status")
       \/ Fail(ReqwestError("get"), id)
    /\ UNCHANGED <<downloads, pool, call, proxy, seen, fs, range_iter>>

\* StatusCode::is_success: the code is within 200..=299
is_success(code) == code = "200"

\* format!("{:?} status code.", response.status())
status_code_message(code) ==
    CASE code = "200" -> "200 status code."
      [] code = "404" -> "404 status code."
      [] code = "500" -> "500 status code."

\* The status check as if it reported a transport error without the code
StatusCheck_reqwest(id) ==
    /\ At(id, {"status"})
    /\ \E code \in StatusCodes :
         IF is_success(code)
         THEN Goto(id, "content_length")
         ELSE Fail(ReqwestError("status"), id)
    /\ UNCHANGED <<downloads, pool, call, proxy, seen, fs, range_iter>>

\* if !response.status().is_success()
StatusCheck(id) ==
    /\ At(id, {"status"})
    /\ \E code \in StatusCodes :
         IF is_success(code)
         THEN Goto(id, "content_length")
         ELSE Fail(IoError(status_code_message(code)), id)
    /\ UNCHANGED <<downloads, pool, call, proxy, seen, fs, range_iter>>

\* The content-length step as if a missing or malformed header were an error
ContentLength_strict(id) ==
    /\ At(id, {"content_length"})
    /\ \E header \in ContentLengthHeaders :
         IF content_length(header) # None
         THEN /\ states' = [states EXCEPT ![id].total_size = content_length(header)]
              /\ task' = [task EXCEPT ![id].pc = "is_dir"]
              /\ UNCHANGED writes
         ELSE Fail(IoError("content_length"), id)
    /\ UNCHANGED <<downloads, pool, call, proxy, seen, fs, range_iter>>

\* if let Some(Ok(Ok(length))) = ... { download.lock().total_size = Some(length) }
ContentLength(id) ==
    /\ At(id, {"content_length"})
    /\ \E header \in ContentLengthHeaders :
         states' = IF content_length(header) # None
                   THEN [states EXCEPT ![id].total_size = content_length(header)]
                   ELSE states
    /\ task' = [task EXCEPT ![id].pc = "is_dir"]
    /\ UNCHANGED <<downloads, pool, call, proxy, seen, writes, fs, range_iter>>

\* The directory test as if it were missing
IsDir_missing(id) ==
    /\ At(id, {"is_dir"})
    /\ Goto(id, "create_dir_all")
    /\ UNCHANGED <<downloads, pool, call, proxy, seen, fs, range_iter>>

\* The directory test as if the file were opened right after it
IsDir_then_open(id) ==
    /\ At(id, {"is_dir"})
    /\ IF is_dir(task[id].output)
       THEN Fail(IoError("is_dir"), id)
       ELSE Goto(id, "open")
    /\ UNCHANGED <<downloads, pool, call, proxy, seen, fs, range_iter>>

\* if output.is_dir()
IsDir(id) ==
    /\ At(id, {"is_dir"})
    /\ IF is_dir(task[id].output)
       THEN Fail(IoError("is_dir"), id)
       ELSE Goto(id, "create_dir_all")
    /\ UNCHANGED <<downloads, pool, call, proxy, seen, fs, range_iter>>

\* Path::parent: None for the empty path and for a root, else the path without
\* its last component
parent(output) ==
    CASE output = "" -> None
      [] output = "/" -> None
      [] output = "/a" -> Some("/")
      [] output = "/dir" -> Some("/")
      [] output = "/new" -> Some("/")
      [] output = "/new/b" -> Some("/new")

\* The path and the directories above it
RECURSIVE ancestors(_)
ancestors(path) ==
    IF parent(path) = None THEN {path} ELSE {path} \cup ancestors(parent(path)[1])

\* fs::create_dir_all(path), Ok: the directory and every one above it exist
create_dir_all(path) == [fs EXCEPT !.dirs = @ \cup ancestors(path)]

\* let parent_path = output.parent().expect(..); fs::create_dir_all(parent_path).
\* The expect on None panics: the closure unwinds out of the pool, which has no
\* panic handler, so the process aborts with the state left as it is.
CreateDirAll(id) ==
    /\ At(id, {"create_dir_all"})
    /\ IF parent(task[id].output) = None
       THEN Goto(id, "aborted") /\ UNCHANGED fs
       ELSE \/ Goto(id, "open") /\ fs' = create_dir_all(parent(task[id].output)[1])
            \/ Fail(IoError("create_dir_all"), id) /\ UNCHANGED fs
    /\ UNCHANGED <<downloads, pool, call, proxy, seen, range_iter>>

\* OpenOptions::new().read(true).write(true).create(true).append(false).open(path),
\* Ok: a missing file is created empty, an existing file keeps its content (the
\* options do not ask for truncation); the cursor of the new handle is at 0
open(path) == [fs EXCEPT !.files[path] = IF @ = None THEN Some(0) ELSE @]

\* let mut dl_file = match OpenOptions::new()...open(output.as_path())
Open(id) ==
    /\ At(id, {"open"})
    /\ \/ Goto(id, "loop") /\ fs' = open(task[id].output)
       \/ Fail(IoError("open"), id) /\ UNCHANGED fs
    /\ UNCHANGED <<downloads, pool, call, proxy, seen, range_iter>>

\* The speed published for diff bytes in time units of 200 ms, in byte/sec; for
\* the byte counts explored the product is far below the 64 bits it is computed in
speed_of(diff, time) == (diff * 1000000000) \div (time * 200000000)

\* The sample as if it stored a fresh Download::pending() with the new speed
Sample_resets(id) ==
    /\ At(id, {"loop", "retry"})
    /\ \E time \in Elapsed :
         /\ time >= DOWNLOAD_SPEED_INTERVAL
         /\ states' = [states EXCEPT ![id] = [Download_pending EXCEPT !.speed =
                          speed_of(task[id].written - task[id].written_update, time)]]
    /\ task' = [task EXCEPT ![id].pc = "read", ![id].written_update = task[id].written]
    /\ UNCHANGED <<downloads, pool, call, proxy, seen, writes, fs, range_iter>>

\* The sample as if written_update were not reset after publishing
Sample_keeps_baseline(id) ==
    /\ At(id, {"loop", "retry"})
    /\ \E time \in Elapsed :
         /\ time >= DOWNLOAD_SPEED_INTERVAL
         /\ states' = [states EXCEPT ![id].speed =
                          speed_of(task[id].written - task[id].written_update, time)]
    /\ task' = [task EXCEPT ![id].pc = "read"]
    /\ UNCHANGED <<downloads, pool, call, proxy, seen, writes, fs, range_iter>>

\* Top of the loop, the interval has elapsed: publish the speed, reset the baseline
Sample(id) ==
    /\ At(id, {"loop", "retry"})
    /\ \E time \in Elapsed :
         /\ time >= DOWNLOAD_SPEED_INTERVAL
         /\ states' = [states EXCEPT ![id].speed =
                          speed_of(task[id].written - task[id].written_update, time)]
    /\ task' = [task EXCEPT ![id].pc = "read", ![id].written_update = task[id].written]
    /\ UNCHANGED <<downloads, pool, call, proxy, seen, writes, fs, range_iter>>

\* The read as if the end of the response set total_size to the bytes written
ReadProgress_sets_total(id) ==
    /\ At(id, {"loop", "retry", "read"})
    /\ \/ /\ states' = [states EXCEPT ![id].status = Successful,
                                        ![id].total_size = Some(task[id].written)]
          /\ writes' = [writes EXCEPT ![id] = @ + 1]
          /\ task' = [task EXCEPT ![id].pc = "done"]
       \/ \E length \in ChunkLens :
            /\ task[id].consumed + length <= MaxBytes
            /\ task' = [task EXCEPT ![id].pc = "write_all", ![id].length = length,
                                    ![id].consumed = @ + length]
            /\ UNCHANGED <<states, writes>>
       \/ Fail(IoError("read"), id)
    /\ UNCHANGED <<downloads, pool, call, proxy, seen, fs, range_iter>>

\* The read as if a chunk were counted in downloaded_size when it was read
ReadProgress_counts_chunk(id) ==
    /\ At(id, {"loop", "retry", "read"})
    /\ \/ /\ states' = [states EXCEPT ![id].status = Successful]
          /\ writes' = [writes EXCEPT ![id] = @ + 1]
          /\ task' = [task EXCEPT ![id].pc = "done"]
       \/ \E length \in ChunkLens :
            /\ task[id].consumed + length <= MaxBytes
            /\ task' = [task EXCEPT ![id].pc = "write_all", ![id].length = length,
                                    ![id].consumed = @ + length]
            /\ states' = [states EXCEPT ![id].downloaded_size = @ + length]
            /\ UNCHANGED writes
       \/ Fail(IoError("read"), id)
    /\ UNCHANGED <<downloads, pool, call, proxy, seen, fs, range_iter>>

\* response.read(&mut buf) returns Ok(0), Ok(length) or an error other than
\* Interrupted; at "loop" and at "retry" (the top of the loop reached by continue)
\* the interval has not elapsed and nothing is published
ReadProgress(id) ==
    /\ At(id, {"loop", "retry", "read"})
    /\ \/ /\ states' = [states EXCEPT ![id].status = Successful]
          /\ writes' = [writes EXCEPT ![id] = @ + 1]
          /\ task' = [task EXCEPT ![id].pc = "done"]
       \/ \E length \in ChunkLens :
            /\ task[id].consumed + length <= MaxBytes
            /\ task' = [task EXCEPT ![id].pc = "write_all", ![id].length = length,
                                    ![id].consumed = @ + length]
            /\ UNCHANGED <<states, writes>>
       \/ Fail(IoError("read"), id)
    /\ UNCHANGED <<downloads, pool, call, proxy, seen, fs, range_iter>>

\* The Interrupted arm as if it were missing: the error fails the download
ReadInterrupted_fails(id) ==
    /\ At(id, {"loop", "retry", "read"})
    /\ Fail(IoError("read"), id)
    /\ UNCHANGED <<downloads, pool, call, proxy, seen, fs, range_iter>>

\* response.read(&mut buf) returns Err of kind Interrupted, which hands out no
\* byte of the response: continue
ReadInterrupted(id) ==
    /\ At(id, {"loop", "retry", "read"})
    /\ Goto(id, "retry")
    /\ UNCHANGED <<downloads, pool, call, proxy, seen, fs, range_iter>>

Max(a, b) == IF a >= b THEN a ELSE b

\* dl_file.write_all(buf), Ok: the bytes replace or extend the file at the cursor
write_all(path, cursor, length) ==
    [fs EXCEPT !.files[path] = Some(Max(@[1], cursor + length))]

\* The write as if downloaded_size were published before write_all was tried
WriteAll_counts_first(id) ==
    /\ At(id, {"write_all"})
    /\ \/ /\ task' = [task EXCEPT ![id].pc = "downloaded_size"]
          /\ fs' = write_all(task[id].output, task[id].written, task[id].length)
          /\ UNCHANGED <<states, writes>>
       \/ /\ states' = [states EXCEPT ![id].status = Failed(IoError("write_all")),
                                        ![id].downloaded_size = @ + task[id].length]
          /\ writes' = [writes EXCEPT ![id] = @ + 1]
          /\ task' = [task EXCEPT ![id].pc = "done"]
          /\ UNCHANGED fs
    /\ UNCHANGED <<downloads, pool, call, proxy, seen, range_iter>>

\* if let Err(err) = dl_file.write_all(&buf[..length]) { fail_download(..); return; }
\* Ok: the chunk is in the file at the position of the routine's handle, which
\* is the local written until the next statement adds the chunk to it
WriteAll(id) ==
    /\ At(id, {"write_all"})
    /\ \/ /\ task' = [task EXCEPT ![id].pc = "downloaded_size"]
          /\ fs' = write_all(task[id].output, task[id].written, task[id].length)
          /\ UNCHANGED <<states, writes>>
       \/ Fail(IoError("write_all"), id) /\ UNCHANGED fs
    /\ UNCHANGED <<downloads, pool, call, proxy, seen, range_iter>>

\* written += length as u64; download.lock().downloaded_size = written;
DownloadedSize(id) ==
    /\ At(id, {"downloaded_size"})
    /\ LET written == task[id].written + task[id].length IN
         /\ task' = [task EXCEPT ![id].pc = "loop", ![id].written = written,
                                 ![id].length = 0]
         /\ states' = [states EXCEPT ![id].downloaded_size = written]
    /\ UNCHANGED <<downloads, pool, call, proxy, seen, writes, fs, range_iter>>

\* One step of the transfer routine of task id
download_to_file(id) ==
    \/ Start(id)
    \/ IntoUrl(id)
    \/ Get(id)
    \/ StatusCheck(id)
    \/ ContentLength(id)
    \/ IsDir(id)
    \/ CreateDirAll(id)
    \/ Open(id)
    \/ Sample(id)
    \/ ReadProgress(id)
    \/ ReadInterrupted(id)
    \/ WriteAll(id)
    \/ DownloadedSize(id)

\* ------------------------------------------------------------- specifications

Manager ==
    \/ \E path \in Paths : get_download(path)
    \/ has_active_call
    \/ has_active_step
    \/ remove_failed_call
    \/ remove_failed_scan
    \/ remove_failed_retain
    \/ return

Next ==
    \/ \E link \in Links, output \in Paths : download(link, output, MaxDownloads)
    \/ Manager
    \/ \E id \in 1..MaxDownloads : download_to_file(id)

Spec == Init /\ [][Next]_vars

\* The steps of task id the pool's scheduling and the collaborators' answers
\* guarantee: every statement but a sample of the speed and an Interrupted read
Progress(id) ==
    \/ Start(id)
    \/ IntoUrl(id)
    \/ Get(id)
    \/ StatusCheck(id)
    \/ ContentLength(id)
    \/ IsDir(id)
    \/ CreateDirAll(id)
    \/ Open(id)
    \/ ReadProgress(id)
    \/ WriteAll(id)
    \/ DownloadedSize(id)

\* Spec with fair workers: a free worker takes the oldest closure, every HTTP and
\* filesystem call returns, and Interrupted reads do not recur forever
FairSpec == Spec /\ \A id \in 1..MaxDownloads : WF_vars(Progress(id))

\* The manager asked more often than the pool has threads, every time for the
\* existing directory: every closure ends at the is_dir test or before it
NextPool ==
    \/ \E link \in Links : download(link, "/dir", MaxPoolDownloads)
    \/ \E id \in 1..MaxPoolDownloads :
        \/ Start(id)
        \/ IntoUrl(id)
        \/ Get(id)
        \/ StatusCheck(id)
        \/ ContentLength(id)
        \/ IsDir(id)

SpecPool == Init /\ [][NextPool]_vars

\* The queries of the caller on the handle it holds
Queries ==
    \/ \E name \in ProxyPredicates : proxy_status_query(name)
    \/ proxy_get_download_speed
    \/ proxy_get_downloaded_size

\* One download, every manager call, and the caller's queries on its handle
NextHandle ==
    \/ \E link \in Links, output \in Paths : download(link, output, MaxHandleDownloads)
    \/ Manager
    \/ Queries
    \/ \E id \in 1..MaxHandleDownloads : download_to_file(id)

SpecHandle == Init /\ [][NextHandle]_vars

\* A filesystem on which the file "/a" is missing or exists with some length
InitFile ==
    /\ downloads = <<>>
    /\ states = <<>>
    /\ pool = <<>>
    /\ task = <<>>
    /\ call = Idle
    /\ proxy = NoProxy
    /\ seen = NotSeen
    /\ writes = <<>>
    /\ \E prior \in {None} \cup {Some(n) : n \in 0..MaxPriorLen} :
         fs = [dirs |-> ExistingDirs,
               files |-> [p \in AllPaths |-> IF p = "/a" THEN prior ELSE None]]
    /\ range_iter = NoRangeIter

\* One transfer at a time, to every kind of destination
NextFile ==
    \/ \E link \in Links, output \in FilePaths : download(link, output, MaxFileDownloads)
    \/ \E id \in 1..MaxFileDownloads : download_to_file(id)

SpecFile == InitFile /\ [][NextFile]_vars

\* SpecFile with a fair worker, as FairSpec
FairSpecFile == SpecFile /\ \A id \in 1..MaxFileDownloads : WF_vars(Progress(id))

\* next() as if the upper end of a range were the next lower end
PartialRangeIter_next_inclusive ==
    /\ range_iter' =
         IF range_iter.val > range_iter.max_length
         THEN [range_iter EXCEPT !.none = TRUE]
         ELSE LET current_val == range_iter.val
                  val == range_iter.val + range_iter.chunk_size
              IN [range_iter EXCEPT
                    !.val = val,
                    !.items = Append(@, IF val > range_iter.max_length
                                        THEN format_range(current_val, range_iter.max_length)
                                        ELSE format_range(current_val, val))]
    /\ UNCHANGED <<downloads, states, pool, task, call, proxy, seen, writes, fs>>

\* <PartialRangeIter as Iterator>::next; val + chunk_size stays far below the 32
\* bits of the field for the values explored
PartialRangeIter_next ==
    /\ range_iter' =
         IF range_iter.val > range_iter.max_length
         THEN [range_iter EXCEPT !.none = TRUE]
         ELSE LET current_val == range_iter.val
                  val == range_iter.val + range_iter.chunk_size
              IN [range_iter EXCEPT
                    !.val = val,
                    !.items = Append(@, IF val > range_iter.max_length
                                        THEN format_range(current_val, range_iter.max_length)
                                        ELSE format_range(current_val, val - 1))]
    /\ UNCHANGED <<downloads, states, pool, task, call, proxy, seen, writes, fs>>

\* A PartialRangeIter made by new() from any arguments with a chunk size of at
\* least 1, beside a manager nothing is asked of
InitRange ==
    /\ downloads = <<>>
    /\ states = <<>>
    /\ pool = <<>>
    /\ task = <<>>
    /\ call = Idle
    /\ proxy = NoProxy
    /\ seen = NotSeen
    /\ writes = <<>>
    /\ fs = [dirs |-> ExistingDirs, files |-> [p \in AllPaths |-> None]]
    /\ \E starting_value \in 0..MaxRangeValue, max_value \in 0..MaxRangeValue,
          chunk_size \in 1..MaxChunkSize :
         range_iter = PartialRangeIter_new(starting_value, max_value, chunk_size)

\* The caller asks the iterator for its next item
NextRange == PartialRangeIter_next

SpecRange == InitRange /\ [][NextRange]_vars

\* ---------------------------------------------------------------- properties

Range(f) == {f[x] : x \in DOMAIN f}

Terminal(id) == states[id].status.tag \in {"Successful", "Failed"}

\* The routine of task id has ended, by a return or by the panic
Ended(id) == task[id].pc \in {"done", "aborted"}

\* C1: the status of every download state only ever changes Pending -> Running,
\* Running -> Successful or Running -> Failed, whatever step is taken (download,
\* a worker step, a manager call); a terminal status never changes again.
C1_StatusTransitions ==
    [][\A id \in 1..MaxDownloads :
        id <= Len(states) =>
            \/ states'[id].status = states[id].status
            \/ /\ states[id].status = Pending
               /\ states'[id].status = Running
            \/ /\ states[id].status = Running
               /\ states'[id].status.tag \in {"Successful", "Failed"}]_vars

\* C1 witness: one download ended Successful and another Failed
C1_Witness ==
    \E i, j \in Ids :
        /\ states[i].status = Successful
        /\ states[j].status.tag = "Failed"

\* C2: every execution of download_to_file that has ended has assigned a
\* terminal status exactly once.
C2_ExactlyOneTerminalWrite ==
    \A id \in Ids : Ended(id) => writes[id] = 1

\* C3: every submitted download eventually reaches Successful or Failed.
C3_EveryDownloadTerminates ==
    \A id \in 1..MaxDownloads :
        (id <= Len(states)) ~> (id <= Len(states) /\ Terminal(id))

\* What remove_failed returned, and what it removed from the registry
Returned == call.failed
Removed == {call.before[p].download : p \in DOMAIN call.before \ DOMAIN downloads}
RemoveFailedReturns == call.op = "remove_failed" /\ call.phase = "return"

\* C4: when remove_failed returns, the number of handles returned is the number of
\* entries removed (size before minus size after), and every removed entry has a
\* handle in the returned list.
C4_ReturnedAreTheRemoved ==
    RemoveFailedReturns =>
        /\ Cardinality(Returned) = Cardinality(DOMAIN call.before) - size
        /\ Removed \subseteq Returned

\* C5 as claimed: when remove_failed returns, every entry that was Pending,
\* Running or Successful when the call started is still registered under the same
\* path with the same state, every entry that was Failed then is gone, and every
\* returned handle is Failed.
C5_OnlyFailedAtCallRemoved ==
    RemoveFailedReturns =>
        /\ \A p \in DOMAIN call.before :
            IF call.before[p].tag = "Failed"
            THEN p \notin DOMAIN downloads
            ELSE p \in DOMAIN downloads /\ downloads[p] = call.before[p].download
        /\ \A id \in Returned : states[id].status.tag = "Failed"

\* C5 amended: when remove_failed returns, every entry that was Successful when
\* the call started, and every entry that is still Pending or Running, is
\* registered under the same path with the same state; every entry removed is
\* Failed by now; every entry that was Failed when the call started is gone; and
\* every returned handle is Failed.
C5_FailedRemovedOthersKept ==
    RemoveFailedReturns =>
        /\ \A p \in DOMAIN call.before :
            /\ call.before[p].tag = "Failed" => p \notin DOMAIN downloads
            /\ \/ call.before[p].tag = "Successful"
               \/ states[call.before[p].download].status.tag \in {"Pending", "Running"}
               => p \in DOMAIN downloads /\ downloads[p] = call.before[p].download
            /\ p \notin DOMAIN downloads
                => states[call.before[p].download].status.tag = "Failed"
        /\ DOMAIN downloads \subseteq DOMAIN call.before
        /\ \A id \in Returned : states[id].status.tag = "Failed"

\* C5 witness: remove_failed returns having kept a Successful entry, kept an entry
\* that is Running, or removed an entry that was Running when it was called
C5_Witness ==
    /\ RemoveFailedReturns
    /\ \E p, q \in DOMAIN call.before :
        /\ call.before[p].tag = "Successful"
        /\ p \in DOMAIN downloads
        /\ call.before[q].tag = "Running"
        /\ q \notin DOMAIN downloads

\* A registered state is Pending or Running
AnyActive ==
    \E p \in DOMAIN downloads : states[downloads[p]].status.tag \in {"Pending", "Running"}

\* C6: at the step that decides what has_active returns, the value is TRUE if and
\* only if some state in the registry is Pending or Running at that moment: FALSE
\* on an empty registry and when every registered state is terminal; states that
\* are no longer registered do not count.
C6_HasActive ==
    [][/\ call.phase # "return"
       /\ call'.op = "has_active"
       /\ call'.phase = "return"
       => call'.result = AnyActive]_vars

\* C6 witness: has_active returns FALSE on a registry that is not empty while a
\* state that was overwritten or removed is still Running
C6_Witness ==
    /\ call.op = "has_active"
    /\ call.phase = "return"
    /\ call.result = FALSE
    /\ downloads # <<>>
    /\ \E id \in Ids \ Range(downloads) : states[id].status = Running

\* C7: get_download(path) returns nothing when path has no registry entry, and
\* otherwise a handle of a state that download() created for that path; as long
\* as no worker has started a state's transfer the state is registered, reports
\* is_pending, downloaded size 0 and no speed, and it is Pending exactly until
\* the worker has set it Running.
C7_HandleBeforeStart ==
    /\ [][\A path \in Paths :
            get_download(path) =>
                IF path \in DOMAIN downloads
                THEN proxy' \in Ids /\ task[proxy'].output = path
                ELSE proxy' = NoProxy]_vars
    /\ [](\A id \in Ids :
            /\ task[id].pc = "spawned" <=> is_pending(states[id].status)
            /\ task[id].pc = "spawned" =>
                /\ task[id].output \in DOMAIN downloads
                /\ get_downloaded_size(states[id]) = 0
                /\ get_download_speed(states[id]) = None)

\* C7 witness: the caller holds a handle of a state no worker has started
C7_Witness ==
    /\ proxy \in Ids
    /\ task[proxy].pc = "spawned"
    /\ is_pending(states[proxy].status)

\* The states download() created for path
CreatedFor(path) == {id \in Ids : task[id].output = path}

\* C8: every registered path resolves to the state the latest download() call for
\* that path created, whatever the workers of earlier states do; a download() to
\* a registered path leaves size() unchanged, one to an unregistered path raises
\* it by one.
C8_LatestDownloadRegistered ==
    /\ [](\A path \in DOMAIN downloads :
            /\ downloads[path] \in CreatedFor(path)
            /\ \A id \in CreatedFor(path) : id <= downloads[path])
    /\ [][\A link \in Links, output \in Paths :
            download(link, output, MaxDownloads) =>
                /\ downloads'[output] = Len(states')
                /\ Cardinality(DOMAIN downloads') =
                      IF output \in DOMAIN downloads THEN size ELSE size + 1]_vars

\* C8 witness: two download() calls for one path, the registry resolves to the
\* second state while the worker of the first is inside its transfer
C8_Witness ==
    \E i, j \in Ids :
        /\ i < j
        /\ task[i].output = task[j].output
        /\ Busy(i)
        /\ task[i].output \in DOMAIN downloads
        /\ downloads[task[i].output] = j

C10_RunningBounded ==
    Cardinality({id \in Ids : states[id].status = Running})
        <= DOWNLOAD_MANAGER_NUMBER_OF_THREADS

\* C10 witness: as many states Running as the pool has threads, a further one Pending
C10_Witness ==
    /\ Cardinality({id \in Ids : states[id].status = Running})
          = DOWNLOAD_MANAGER_NUMBER_OF_THREADS
    /\ \E id \in Ids : states[id].status = Pending

\* Every thread of the pool is inside a closure
Saturated ==
    Cardinality({i \in Ids : Busy(i)}) = DOWNLOAD_MANAGER_NUMBER_OF_THREADS

\* C11: download() does not wait for a worker: it can be called and returns while
\* every thread of the pool is busy, it registers the new state as Pending and
\* leaves every other state and routine as it is; while every thread is busy a
\* Pending state stays Pending, so it becomes Running only after a worker has
\* ended its transfer.
C11_DownloadDoesNotWait ==
    /\ [](Alive /\ call = Idle /\ Len(states) < MaxPoolDownloads
            => ENABLED (\E link \in Links : download(link, "/dir", MaxPoolDownloads)))
    /\ [][\A link \in Links :
            download(link, "/dir", MaxPoolDownloads) =>
                /\ Len(states') = Len(states) + 1
                /\ states'[Len(states')].status = Pending
                /\ downloads'["/dir"] = Len(states')
                /\ \A other \in Ids :
                    states'[other] = states[other] /\ task'[other] = task[other]]_vars
    /\ [][\A id \in 1..MaxPoolDownloads :
            id <= Len(states) /\ Saturated /\ states[id].status = Pending
                => states'[id].status = Pending]_vars

\* C11 witness: download() has returned while every thread was busy: the newest
\* state is registered and Pending, its closure waits in the pool
C11_Witness ==
    /\ Saturated
    /\ Len(states) = DOWNLOAD_MANAGER_NUMBER_OF_THREADS + 1
    /\ downloads["/dir"] = Len(states)
    /\ states[Len(states)].status = Pending
    /\ pool = <<Len(states)>>

\* The errors a response without a success status fails the download with
StatusErrors == {IoError(status_code_message(code)) : code \in StatusCodes \ {"200"}}

\* The routine of task id was handed a path that is a directory from the beginning
ToDirectory(id) == task[id].output \in ExistingDirs

\* C12 as claimed: a transfer whose destination is an existing directory ends
\* Failed with an IoError, whatever the link and the HTTP outcome, and has written
\* nothing: downloaded_size is 0 and no file exists at the destination.
C12_DirectoryAlwaysIoError ==
    \A id \in Ids :
        ToDirectory(id) /\ Ended(id) =>
            /\ is_failed(states[id].status)
            /\ states[id].status.error.kind = "IoError"
            /\ states[id].downloaded_size = 0
            /\ fs.files[task[id].output] = None

\* C12 amended: a transfer whose destination is an existing directory always ends
\* Failed: with a ReqwestError when the link does not parse or the request fails,
\* with an IoError when the response has no success status or the routine reaches
\* the directory test. It never gets past that test, so no step of it changes the
\* filesystem, downloaded_size stays 0 and no file exists at the destination.
C12_DirectoryFailsWithoutWrite ==
    /\ [](\A id \in Ids :
            ToDirectory(id) =>
                /\ task[id].pc \in {"spawned", "into_url", "get", "status",
                                    "content_length", "is_dir", "done"}
                /\ task[id].pc = "done" =>
                    /\ is_failed(states[id].status)
                    /\ states[id].status.error \in
                          {ReqwestError("into_url"), ReqwestError("get"), IoError("is_dir")}
                              \cup StatusErrors
                    /\ ~into_url_ok(task[id].link)
                          => states[id].status.error = ReqwestError("into_url")
                /\ states[id].downloaded_size = 0
                /\ fs.files[task[id].output] = None)
    /\ [][\A id \in 1..MaxFileDownloads :
            id <= Len(states) /\ ToDirectory(id) /\ task'[id] # task[id] => fs' = fs]_vars
    /\ \A id \in 1..MaxFileDownloads :
            (id <= Len(states) /\ ToDirectory(id))
                ~> (id <= Len(states) /\ task[id].pc = "done"
                        /\ is_failed(states[id].status))

\* C12 witness: the request for a directory got a response with a content length,
\* and the directory test failed the download
C12_Witness ==
    \E id \in Ids :
        /\ ToDirectory(id)
        /\ states[id].status = Failed(IoError("is_dir"))
        /\ states[id].total_size = Some(1)
        /\ task[id].pc = "done"

\* The errors a step after the content-length step can fail the download with
LaterErrors ==
    {IoError(at) : at \in {"is_dir", "create_dir_all", "open", "read", "write_all"}}

\* C13: the content-length step never fails the download: whatever header the
\* response carries, the routine goes on to the directory test with the status
\* still Running, and total_size is set only to the number a header parses to;
\* no other step sets total_size, so without a parseable header it stays unset
\* for the whole transfer; and a transfer that got a response with a success
\* status ends Successful unless one of the later steps fails.
C13_MissingLengthIsNoError ==
    /\ [][\A id \in 1..MaxFileDownloads :
            id <= Len(states) /\ task'[id] # task[id] =>
                IF task[id].pc = "content_length"
                THEN /\ task'[id].pc = "is_dir"
                     /\ states'[id].status = Running
                     /\ writes'[id] = 0
                     /\ \E header \in ContentLengthHeaders :
                            /\ states'[id].total_size = content_length(header)
                            /\ ~header.present \/ ~to_str_ok(header.value)
                                  \/ u64_from_str(header.value) = None
                                => states'[id].total_size = None
                ELSE states'[id].total_size = states[id].total_size]_vars
    /\ [](\A id \in Ids :
            /\ task[id].pc \in {"spawned", "into_url", "get", "status", "content_length"}
                => states[id].total_size = None
            /\ task[id].pc = "done"
                 /\ states[id].status.error \notin
                        {ReqwestError("into_url"), ReqwestError("get")} \cup StatusErrors
                => \/ states[id].status = Successful
                   \/ /\ is_failed(states[id].status)
                      /\ states[id].status.error \in LaterErrors)

\* C13 witness: a transfer has ended Successful with a byte written and total_size unset
C13_Witness ==
    \E id \in Ids :
        /\ task[id].pc = "done"
        /\ states[id].status = Successful
        /\ states[id].total_size = None
        /\ states[id].downloaded_size = 1

\* C14: for every transfer that has ended Successful, whatever file existed at the
\* destination before, downloaded_size is the number of bytes the routine wrote
\* to the output file and that number is the size of the file on disk.
C14_DownloadedSizeIsFileSize ==
    \A id \in Ids :
        task[id].pc = "done" /\ states[id].status = Successful =>
            /\ states[id].downloaded_size = task[id].written
            /\ fs.files[task[id].output] = Some(task[id].written)

\* C15: an Interrupted read changes nothing but the place of the routine, which
\* is back at the top of the loop: the status stays Running, no byte of the
\* response is handed out, nothing is written. So wherever Interrupted errors
\* fall, every byte the response has handed out is written exactly once
\* (written is the position in the response between two reads, and one chunk
\* behind it at the write), and a transfer that ends Successful has
\* downloaded_size equal to the length of the response, as without interruption.
C15_InterruptedIsRetried ==
    /\ [][\A id \in 1..MaxFileDownloads :
            ReadInterrupted(id) =>
                /\ states' = states
                /\ writes' = writes
                /\ fs' = fs
                /\ task' = [task EXCEPT ![id].pc = "retry"]]_vars
    /\ [](\A id \in Ids :
            /\ task[id].pc \in {"loop", "read", "retry"} =>
                /\ states[id].status = Running
                /\ task[id].consumed = task[id].written
                /\ states[id].downloaded_size = task[id].written
            /\ task[id].pc \in {"write_all", "downloaded_size"} =>
                /\ task[id].length > 0
                /\ task[id].consumed = task[id].written + task[id].length
            /\ task[id].pc = "done" /\ states[id].status = Successful =>
                states[id].downloaded_size = task[id].consumed)

\* C15 witness: a read after the first chunk was written returned Interrupted;
\* the routine is at the top of the loop, the download is Running
C15_Witness ==
    \E id \in Ids :
        /\ task[id].pc = "retry"
        /\ task[id].written = 1
        /\ states[id].status = Running
        /\ states[id].downloaded_size = 1

\* C16: the step at the status check either goes on, or fails the download with
\* an IoError whose message carries the status code (one message per code); a
\* download failed that way has total_size unset and downloaded_size 0, and no
\* step of the routine up to and including the status check changes the
\* filesystem: no directory and no file was created.
C16_StatusFailsEarly ==
    /\ [][\A id \in 1..MaxFileDownloads :
            id <= Len(states) /\ task'[id] # task[id]
              /\ task[id].pc \in {"spawned", "into_url", "get", "status"} =>
                /\ fs' = fs
                /\ states'[id].total_size = None
                /\ task[id].pc = "status" =>
                    \/ task'[id].pc = "content_length" /\ states' = states
                    \/ /\ task'[id].pc = "done"
                       /\ is_failed(states'[id].status)
                       /\ states'[id].status.error \in StatusErrors]_vars
    /\ [](\A id \in Ids :
            is_failed(states[id].status) /\ states[id].status.error \in StatusErrors =>
                /\ states[id].status.error.kind = "IoError"
                /\ task[id].pc = "done"
                /\ states[id].total_size = None
                /\ states[id].downloaded_size = 0
                /\ task[id].written = 0)
    /\ [](Cardinality(StatusErrors) = Cardinality(StatusCodes \ {"200"}))

\* C16 witness: a response with status 404 has failed a download to a path whose
\* directory does not exist
C16_Witness ==
    \E id \in Ids :
        /\ states[id].status = Failed(IoError(status_code_message("404")))
        /\ task[id].output = "/new/b"
        /\ "/new" \notin fs.dirs

\* The statements of the routine after which control is inside the loop
InLoop == {"loop", "read", "retry", "write_all", "downloaded_size"}

\* A step fails the download of task id
Fails(id) == ~is_failed(states[id].status) /\ is_failed(states'[id].status)

C18_SpeedOnlyWhileRunning ==
    /\ [](\A id \in Ids :
            /\ get_download_speed(states[id]) # None <=> is_running(states[id].status)
            /\ ~is_running(states[id].status) => get_download_speed(states[id]) = None
            /\ task[id].pc \in {"into_url", "get", "status", "content_length", "is_dir",
                                "create_dir_all", "open"}
                => get_download_speed(states[id]) = Some(0))
    /\ [][\A id \in 1..MaxFileDownloads :
            id <= Len(states) /\ is_running(states[id].status)
              /\ is_running(states'[id].status) =>
                IF task[id].pc \in {"loop", "retry"} /\ task'[id].pc = "read"
                THEN \E time \in Elapsed :
                        /\ time >= DOWNLOAD_SPEED_INTERVAL
                        /\ get_download_speed(states'[id]) =
                              Some(speed_of(task[id].written - task[id].written_update, time))
                ELSE get_download_speed(states'[id]) = get_download_speed(states[id])]_vars

\* C18 witness: a download has ended with a sample other than 0 stored, and
\* get_download_speed() returns nothing
C18_Witness ==
    \E id \in Ids :
        /\ is_successful(states[id].status)
        /\ states[id].speed > 0
        /\ get_download_speed(states[id]) = None

\* The errors the step at statement pc can fail the download with
ErrorsAt(pc) ==
    CASE pc = "into_url" -> {ReqwestError("into_url")}
      [] pc = "get" -> {ReqwestError("get")}
      [] pc = "status" -> StatusErrors
      [] pc \in {"loop", "retry", "read"} -> {IoError("read")}
      [] OTHER -> {IoError(pc)}

\* C19: get_error() returns a cause exactly when the status is Failed and nothing
\* for Pending, Running and Successful; the cause is the error of the step that
\* failed the download, and every later call returns the same cause.
C19_ErrorOnlyWhenFailed ==
    /\ [](\A id \in Ids :
            /\ get_error(states[id].status) # None <=> is_failed(states[id].status)
            /\ states[id].status.tag \in {"Pending", "Running", "Successful"}
                => get_error(states[id].status) = None)
    /\ [][\A id \in 1..MaxFileDownloads :
            id <= Len(states) =>
                /\ Fails(id) =>
                    \E error \in ErrorsAt(task[id].pc) :
                        get_error(states'[id].status) = Some(error)
                /\ is_failed(states[id].status) =>
                    get_error(states'[id].status) = get_error(states[id].status)]_vars

\* C19 witness: a download has failed at open, get_error() returns that I/O error
C19_Witness ==
    \E id \in Ids :
        /\ is_failed(states[id].status)
        /\ get_error(states[id].status) = Some(IoError("open"))

\* The I/O errors the program wraps into a status
IoErrors == {"is_dir", "create_dir_all", "open", "read", "write_all"}

\* The predicates that are true of a status
TruePredicates(status) ==
    {name \in {"Pending", "Running", "Successful", "Failed"} :
        \/ name = "Pending" /\ is_pending(status)
        \/ name = "Running" /\ is_running(status)
        \/ name = "Successful" /\ is_successful(status)
        \/ name = "Failed" /\ is_failed(status)}

\* C20: of every status a download has, exactly one of is_pending, is_running,
\* is_successful and is_failed is true, the one named after the variant; a status
\* built from an I/O error is Failed, and neither pending, running nor successful.
C20_ExactlyOnePredicate ==
    /\ \A id \in Ids : TruePredicates(states[id].status) = {states[id].status.tag}
    /\ \A error \in IoErrors :
        TruePredicates(DownloadStatus_from_io_Error(error)) = {"Failed"}

\* C20 witness: a download has failed with an I/O error at a write, is_failed is
\* true of its status and the other three predicates are false
C20_Witness ==
    \E id \in Ids :
        /\ states[id].status = DownloadStatus_from_io_Error("write_all")
        /\ is_failed(states[id].status)
        /\ ~is_pending(states[id].status)
        /\ ~is_running(states[id].status)
        /\ ~is_successful(states[id].status)

\* C21: the step that fails a download changes nothing but the status of that
\* download: the registry, every field of every other state, the routines of the
\* other downloads and its own downloaded_size, total_size and speed stay as they
\* are; and once a download has failed, every other download still reaches
\* Successful or Failed.
C21_FailureIsLocal ==
    /\ [][\A id \in 1..MaxDownloads :
            id <= Len(states) /\ Fails(id) =>
                /\ downloads' = downloads
                /\ states' = [states EXCEPT ![id].status = states'[id].status]
                /\ \A other \in Ids \ {id} : task'[other] = task[other]]_vars
    /\ \A id \in 1..MaxDownloads, j \in 1..MaxDownloads :
            (id <= Len(states) /\ j <= Len(states) /\ is_failed(states[id].status))
                ~> (j <= Len(states) /\ Terminal(j))

\* C22: a step that changes a field of a state is a step of the routine that
\* download() spawned together with that state, and of nothing else: it is not a
\* manager call (the caller's call, handle and registry are as before, no state
\* is added), it moves no other routine and it changes no other state. So no
\* state has two writers and no manager operation writes a state.
C22_SingleWriter ==
    [][\A id \in 1..MaxDownloads :
        id <= Len(states) /\ states'[id] # states[id] =>
            /\ task'[id].pc # task[id].pc
            /\ task'[id].link = task[id].link /\ task'[id].output = task[id].output
            /\ call' = call /\ proxy' = proxy /\ seen' = seen
            /\ downloads' = downloads
            /\ Len(states') = Len(states)
            /\ \A other \in Ids \ {id} :
                states'[other] = states[other] /\ task'[other] = task[other]]_vars

\* C22 witness: two workers are inside the routines of two states created for
\* the same path, both have written their own state, and the caller is inside
\* remove_failed
C22_Witness ==
    /\ call.op = "remove_failed"
    /\ \E i, j \in Ids :
        /\ i < j
        /\ task[i].output = task[j].output
        /\ states[i].status = Running
        /\ states[j].status = Running
        /\ states[i].total_size # states[j].total_size

\* The place of a statement in the routine; the statements of the loop share one
PcRank(pc) ==
    CASE pc = "spawned" -> 0
      [] pc = "into_url" -> 1
      [] pc = "get" -> 2
      [] pc = "status" -> 3
      [] pc = "content_length" -> 4
      [] pc = "is_dir" -> 5
      [] pc = "create_dir_all" -> 6
      [] pc = "open" -> 7
      [] pc \in InLoop -> 8
      [] pc \in {"done", "aborted"} -> 9

\* C23: every download() call spawns one closure, which a worker takes once: the
\* closure waits in the pool exactly while its routine has not started. The
\* routine only moves forward: every statement before the loop is executed at
\* most once, a routine that has ended (also Failed) never moves again and its
\* state never changes again, and each pass of the loop writes the next chunk;
\* only an Interrupted read leads back without progress.
C23_OneAttempt ==
    /\ [](/\ Len(task) = Len(states)
          /\ Cardinality(Range(pool)) = Len(pool)
          /\ \A id \in Ids : id \in Range(pool) <=> task[id].pc = "spawned")
    /\ [][\A id \in 1..MaxFileDownloads :
            id <= Len(states) /\ task'[id] # task[id] =>
                /\ ~Ended(id)
                /\ PcRank(task'[id].pc) >= PcRank(task[id].pc)
                /\ PcRank(task[id].pc) < PcRank("loop")
                    => PcRank(task'[id].pc) > PcRank(task[id].pc)
                /\ task[id].pc = "write_all" /\ task'[id].pc \in InLoop
                    => task'[id].pc = "downloaded_size"
                /\ task[id].pc = "downloaded_size"
                    => task'[id].written > task[id].written
                /\ task[id].pc \in InLoop \ {"write_all"} /\ task'[id].pc \in InLoop
                     /\ task'[id].consumed = task[id].consumed
                     /\ task'[id].written = task[id].written
                    => task'[id].pc \in {"read", "retry"}]_vars
    /\ [][\A id \in 1..MaxFileDownloads :
            id <= Len(states) /\ Ended(id) =>
                task'[id] = task[id] /\ states'[id] = states[id]]_vars

\* C23 witness: a download has failed at the request; its routine has ended after
\* one terminal write and no closure is left in the pool
C23_Witness ==
    \E id \in Ids :
        /\ states[id].status = Failed(ReqwestError("get"))
        /\ task[id].pc = "done"
        /\ writes[id] = 1
        /\ pool = <<>>

\* C24: size() is 0 for a new manager and always the number of paths that
\* get_download() resolves, whatever the status of their states; download() to an
\* unregistered path raises it by 1 and to a registered path leaves it as it is;
\* a step that changes the status of a state never changes it, and it only
\* shrinks inside remove_failed.
C24_SizeCountsEntries ==
    /\ size = 0
    /\ [](/\ size = Cardinality({path \in AllPaths : path \in DOMAIN downloads})
          /\ size = Cardinality(Range(downloads))
          /\ size <= Len(states))
    /\ [][\A link \in Links, output \in Paths :
            download(link, output, MaxDownloads) =>
                size' = IF output \in DOMAIN downloads THEN size ELSE size + 1]_vars
    /\ [][(\E id \in 1..MaxDownloads :
                id <= Len(states) /\ states'[id].status # states[id].status)
            => size' = size]_vars
    /\ [][size' < size => call.op = "remove_failed" /\ size' = size - 1]_vars

\* C24 witness: two paths are registered, one state Failed and one Successful
C24_Witness ==
    /\ size = 2
    /\ \E p, q \in DOMAIN downloads :
        /\ states[downloads[p]].status.tag = "Failed"
        /\ states[downloads[q]].status = Successful

\* State id is registered before the step and not after it
Evicted(id) == id \in Range(downloads) /\ id \notin Range(downloads')

\* C25 as claimed: a state leaves the registry only in a step of remove_failed;
\* in every other step a registered state stays registered.
C25_OnlyRemoveFailedEvicts ==
    [][\A id \in 1..MaxDownloads :
        id <= Len(states) /\ Evicted(id) => call.op = "remove_failed"]_vars

\* C25 amended: a state leaves the registry only when remove_failed's retain
\* finds it Failed, or when download() registers a new state under its path; in
\* every other step, also after it became Successful, it stays registered, and a
\* registered state is the one get_download() returns for its path.
C25_EvictedByRemoveOrOverwrite ==
    /\ [][\A id \in 1..MaxDownloads :
            id <= Len(states) /\ Evicted(id) =>
                \/ /\ call.op = "remove_failed"
                   /\ call.phase = "retain"
                   /\ states[id].status.tag = "Failed"
                   /\ task[id].output \notin DOMAIN downloads'
                \/ /\ call = Idle
                   /\ Len(states') = Len(states) + 1
                   /\ task'[Len(states')].output = task[id].output
                   /\ downloads'[task[id].output] = Len(states')]_vars
    /\ [](\A id \in Ids :
            id \in Range(downloads) =>
                /\ task[id].output \in DOMAIN downloads
                /\ downloads[task[id].output] = id)

\* C25 witness: a state that ended Successful is out of the registry although
\* remove_failed was never its remover: a later download() took over its path
C25_Witness ==
    \E id \in Ids :
        /\ states[id].status = Successful
        /\ id \notin Range(downloads)
        /\ task[id].output \in DOMAIN downloads
        /\ states[downloads[task[id].output]].status = Running

\* The order of the statuses: Pending, then Running, then a terminal status
StatusRank(name) ==
    CASE name = "none" -> 0
      [] name = "Pending" -> 1
      [] name = "Running" -> 2
      [] name \in {"Successful", "Failed"} -> 3

\* C26: when a query on the caller's handle reports another status than the one
\* the handle reported before, the new one is later in the order Pending <
\* Running < terminal, and it is the status of the state at that moment; after a
\* query saw Running the state is never Pending again, and after a query saw
\* Successful or Failed the state keeps that status. A query changes no state,
\* routine, registry entry or file.
C26_HandleNeverGoesBack ==
    /\ [][seen'.status # seen.status /\ seen'.status # "none" =>
            /\ StatusRank(seen'.status) > StatusRank(seen.status)
            /\ proxy' = proxy
            /\ seen'.status = states[proxy].status.tag]_vars
    /\ [][seen' # seen =>
            /\ states' = states /\ task' = task /\ writes' = writes
            /\ downloads' = downloads /\ pool' = pool /\ fs' = fs]_vars
    /\ [](/\ seen.status = "Running" => states[proxy].status.tag # "Pending"
          /\ seen.status \in {"Successful", "Failed"}
                => states[proxy].status.tag = seen.status)

\* C26 witness: the handle saw Running, later Successful, and then is_running()
\* returned false
C26_Witness ==
    /\ proxy \in Ids
    /\ seen.status = "Successful"
    /\ seen.last = "Running"
    /\ seen.speed # None
    /\ ~is_running(states[proxy].status)

\* C27: every query on the handle answers from the state as it is at that one
\* step (the predicate tests the status of that moment, get_download_speed() is
\* the speed of that moment exactly when the status of that moment is Running,
\* get_downloaded_size() is the size of that moment), touches nothing but its
\* own answer, and no worker update falls inside it; what an earlier query
\* answered plays no part.
C27_EachQueryIsOneRead ==
    [][proxy' = proxy /\ seen' # seen =>
         /\ states' = states /\ task' = task /\ fs' = fs
         /\ seen'.last = "speed" =>
              /\ seen'.speed = IF states[proxy].status.tag = "Running"
                               THEN Some(states[proxy].speed) ELSE None
              /\ seen'.status = seen.status /\ seen'.size = seen.size
         /\ seen'.last = "size" =>
              /\ seen'.size = Some(states[proxy].downloaded_size)
              /\ seen'.status = seen.status /\ seen'.speed = seen.speed
         /\ seen'.last \in ProxyPredicates =>
              /\ seen'.status = IF states[proxy].status.tag = seen'.last
                                THEN seen'.last ELSE seen.status
              /\ seen'.speed = seen.speed /\ seen'.size = seen.size]_vars

\* C27 witness: is_running() returned true and the get_download_speed() asked
\* after it returned nothing, the transfer having ended in between; the size the
\* handle read before is no longer the size of the state
C27_Witness ==
    /\ proxy \in Ids
    /\ seen.status = "Running"
    /\ seen.last = "speed"
    /\ seen.speed = None
    /\ seen.size = Some(0)
    /\ states[proxy].downloaded_size > 0

\* Task id is inside the HTTP request, a filesystem call, a network read or a
\* file write
InIO(id) == task[id].pc \in {"get", "create_dir_all", "open", "read", "write_all"}

\* The fields of state id a step changes
FieldsChanged(id) ==
    {f \in {"status", "downloaded_size", "total_size", "speed"} :
        states'[id][f] # states[id][f]}

C29_DownloadedSizeOnlyGrows ==
    /\ [][\A id \in 1..MaxFileDownloads : id <= Len(states) =>
            /\ states'[id].downloaded_size >= states[id].downloaded_size
            /\ states'[id].downloaded_size # states[id].downloaded_size =>
                 /\ task[id].pc = "downloaded_size"
                 /\ task[id].length > 0
                 /\ states'[id].downloaded_size
                        = states[id].downloaded_size + task[id].length
                 /\ states[id].status = Running /\ states'[id].status = Running
                 /\ fs.files[task[id].output] # None
                 /\ fs.files[task[id].output][1] >= states'[id].downloaded_size
                 /\ fs' = fs
            /\ Terminal(id)
                 => states'[id].downloaded_size = states[id].downloaded_size]_vars
    /\ [](\A id \in Ids :
            /\ is_pending(states[id].status) => states[id].downloaded_size = 0
            /\ states[id].downloaded_size = task[id].written)

\* C29 witness: a transfer failed at a read after a chunk was written, and
\* downloaded_size is still the length of that chunk
C29_Witness ==
    \E id \in Ids :
        /\ task[id].pc = "done"
        /\ states[id].status = Failed(IoError("read"))
        /\ states[id].downloaded_size = 1
        /\ fs.files[task[id].output] # None

\* C30: total_size of a state changes only from unset to the number a present,
\* readable content-length header parses to, with the status Running before and
\* after, no byte of the response read or written and no file touched; a set
\* total_size never changes and is never unset again; so it is written at most once.
C30_TotalSizeSetOnce ==
    [][\A id \in 1..MaxFileDownloads :
         id <= Len(states) /\ states'[id].total_size # states[id].total_size =>
            /\ states[id].total_size = None
            /\ \E header \in ContentLengthHeaders :
                 /\ header.present
                 /\ to_str_ok(header.value)
                 /\ u64_from_str(header.value) # None
                 /\ states'[id].total_size = u64_from_str(header.value)
            /\ states[id].status = Running /\ states'[id].status = Running
            /\ states'[id].downloaded_size = 0
            /\ task'[id].written = 0 /\ task'[id].consumed = 0
            /\ fs' = fs]_vars

\* C30 witness: total_size was set from the header, a byte was written after it,
\* and the transfer has ended with total_size as it was set
C30_Witness ==
    \E id \in Ids :
        /\ task[id].pc = "done"
        /\ states[id].status = Successful
        /\ states[id].total_size = Some(1)
        /\ states[id].downloaded_size = 1

\* The statement that follows a statement before the loop when it does not fail
NextStatement(pc) ==
    CASE pc = "spawned" -> "into_url"
      [] pc = "into_url" -> "get"
      [] pc = "get" -> "status"
      [] pc = "status" -> "content_length"
      [] pc = "content_length" -> "is_dir"
      [] pc = "is_dir" -> "create_dir_all"
      [] pc = "create_dir_all" -> "open"
      [] pc = "open" -> "loop"

\* C31: a step of the routine before the loop either goes on to the one statement
\* that follows in the order URL parse, request, status check, content-length,
\* directory test, directory creation, open, loop, the state not Failed, or ends
\* the routine with the state Failed by the cause of the statement it stood at
\* and the filesystem as it was (or, at the directory creation, panics); the
\* loop is left only to the end of the routine; a Failed state belongs to a
\* routine that has ended, carries none of the effects of a later statement, and
\* keeps its cause.
C31_FixedOrderFirstFailure ==
    /\ [][\A id \in 1..MaxFileDownloads :
            id <= Len(states) /\ task'[id].pc # task[id].pc =>
                IF task[id].pc \in InLoop
                THEN /\ task'[id].pc \in InLoop \cup {"done"}
                     /\ is_failed(states'[id].status)
                           => /\ task'[id].pc = "done"
                              /\ states'[id].status.error
                                    = IoError(IF task[id].pc = "write_all"
                                              THEN "write_all" ELSE "read")
                              /\ fs' = fs
                ELSE \/ /\ task'[id].pc = NextStatement(task[id].pc)
                        /\ ~is_failed(states'[id].status)
                     \/ /\ task'[id].pc = "done"
                        /\ Fails(id)
                        /\ states'[id].status.error \in ErrorsAt(task[id].pc)
                        /\ fs' = fs
                     \/ /\ task'[id].pc = "aborted"
                        /\ task[id].pc = "create_dir_all"
                        /\ states'[id] = states[id]]_vars
    /\ [][\A id \in 1..MaxFileDownloads :
            id <= Len(states) /\ is_failed(states[id].status) =>
                states'[id].status = states[id].status /\ task'[id] = task[id]]_vars
    /\ [](\A id \in Ids : is_failed(states[id].status) =>
            /\ task[id].pc = "done"
            /\ states[id].status.error.kind = "ReqwestError"
                 \/ states[id].status.error \in StatusErrors
                  => states[id].total_size = None
            /\ states[id].status.error \notin {IoError("read"), IoError("write_all")}
                  => task[id].written = 0 /\ task[id].consumed = 0
                        /\ states[id].downloaded_size = 0)

\* C31 witness: a routine failed at the open: the content-length was stored and
\* the parent directory was created before it, nothing was read or written after
C31_Witness ==
    \E id \in Ids :
        /\ states[id].status = Failed(IoError("open"))
        /\ states[id].total_size = Some(1)
        /\ task[id].output = "/new/b"
        /\ "/new" \in fs.dirs
        /\ fs.files["/new/b"] = None
        /\ task[id].consumed = 0

\* C32: for every destination path given to download(), a routine that has
\* passed the directory test finds a parent of its path, so no routine ever
\* panics there and no routine ends with its state left Running.
C32_ParentNeverFails ==
    \A id \in Ids :
        /\ task[id].pc = "create_dir_all" => parent(task[id].output) # None
        /\ task[id].pc # "aborted"
        /\ Ended(id) => ~is_running(states[id].status)

\* C33: download() can be called for every path whatever the state registered
\* for that path is doing; the closure at the head of the pool can start while
\* a thread is free, whatever other routine has the same path; and a routine
\* that writes a chunk writes it into the file at its own path at its own
\* position, whether or not its state is still the one registered for the path.
C33_SamePathNotSerialized ==
    /\ [](Alive /\ call = Idle /\ Len(states) < MaxDownloads =>
            \A link \in Links, output \in Paths :
                ENABLED download(link, output, MaxDownloads))
    /\ []((/\ Alive /\ pool # <<>>
           /\ Cardinality({i \in Ids : Busy(i)}) < DOWNLOAD_MANAGER_NUMBER_OF_THREADS)
            => ENABLED Start(Head(pool)))
    /\ [][\A id \in 1..MaxDownloads :
            id <= Len(states) /\ task[id].pc = "write_all"
                 /\ task'[id].pc = "downloaded_size" =>
                /\ fs'.files[task[id].output] # None
                /\ fs'.files[task[id].output][1] >= task[id].written + task[id].length
                /\ \A p \in AllPaths \ {task[id].output} : fs'.files[p] = fs.files[p]]_vars

\* C33 witness: two routines for the same path are Running inside their loops,
\* the first one, no longer registered, and the second have each written their
\* byte at the start of the one file
C33_Witness ==
    \E i, j \in Ids :
        /\ i < j
        /\ task[i].output = task[j].output
        /\ task[j].output \in DOMAIN downloads
        /\ downloads[task[j].output] = j
        /\ is_running(states[i].status) /\ is_running(states[j].status)
        /\ task[i].pc \in InLoop /\ task[j].pc \in InLoop
        /\ states[i].downloaded_size = 1 /\ states[j].downloaded_size = 1
        /\ fs.files[task[i].output] = Some(1)

\* C34: the speed of a state and the baseline written_update of its routine
\* change only in a sample at the top of the loop: the elapsed time is at least
\* the interval, the speed stored is the bytes written since the last sample
\* over that time (5 intervals to the second), written_update becomes written, the routine goes on to the
\* read, the status is Running before and after and no other field changes.
\* written_update never exceeds written, and a state that is Pending has the
\* speed it was created with.
C34_SpeedSampling ==
    /\ [][\A id \in 1..MaxFileDownloads :
            /\ id <= Len(states)
            /\ \/ states'[id].speed # states[id].speed
               \/ task'[id].written_update # task[id].written_update
            => /\ task[id].pc \in {"loop", "retry"}
               /\ task'[id].pc = "read"
               /\ \E time \in Elapsed :
                    /\ time >= DOWNLOAD_SPEED_INTERVAL
                    /\ states'[id].speed * time
                          <= (task[id].written - task[id].written_update) * 5
                    /\ (states'[id].speed + 1) * time
                          > (task[id].written - task[id].written_update) * 5
               /\ task'[id].written_update = task[id].written
               /\ task'[id].written = task[id].written
               /\ states[id].status = Running
               /\ states'[id] = [states[id] EXCEPT !.speed = states'[id].speed]]_vars
    /\ [](\A id \in Ids :
            /\ task[id].written_update <= task[id].written
            /\ is_pending(states[id].status) => states[id].speed = 0)

\* C34 witness: a sample published 1 byte per interval (5 byte/sec) and reset the
\* baseline; the transfer is still Running
C34_Witness ==
    \E id \in Ids :
        /\ is_running(states[id].status)
        /\ states[id].speed = 5
        /\ task[id].written = 1
        /\ task[id].written_update = 1

\* C35: the step that gives a state its terminal status, Failed or Successful,
\* changes the status of that state and no other field of it: downloaded_size,
\* total_size and speed are what they were before the step; so a state that has
\* ended still shows the bytes its routine wrote.
C35_TerminalWriteKeepsFields ==
    /\ [][\A id \in 1..MaxFileDownloads :
            /\ id <= Len(states)
            /\ states[id].status.tag \notin {"Successful", "Failed"}
            /\ states'[id].status.tag \in {"Successful", "Failed"}
            => /\ states'[id].downloaded_size = states[id].downloaded_size
               /\ states'[id].total_size = states[id].total_size
               /\ states'[id].speed = states[id].speed
               /\ task'[id].written = task[id].written]_vars
    /\ [](\A id \in Ids : Terminal(id) =>
            states[id].downloaded_size = task[id].written)

\* C35 witness: a download failed at a read after its first chunk; it is Failed
\* with total_size set, the byte written and the last speed sample still stored
C35_Witness ==
    \E id \in Ids :
        /\ is_failed(states[id].status)
        /\ states[id].total_size = Some(1)
        /\ states[id].downloaded_size = 1
        /\ states[id].speed = 5

\* C36: while has_active() is returning false, every registered state is
\* Successful or Failed; the registry goes from having no active state to having
\* one only by a download() call, so until then a has_active() that decides its
\* result decides false again. (A true result promises nothing about the moment
\* of the return: the witness.)
C36_FalseIsStable ==
    /\ [](call.op = "has_active" /\ call.phase = "return" /\ call.result = FALSE
            => \A p \in DOMAIN downloads : Terminal(downloads[p]))
    /\ [][~AnyActive /\ AnyActive' =>
            /\ Len(states') = Len(states) + 1
            /\ \E p \in DOMAIN downloads' : downloads'[p] = Len(states')]_vars
    /\ [][/\ ~AnyActive /\ ~AnyActive'
          /\ call.phase # "return"
          /\ call'.op = "has_active" /\ call'.phase = "return"
          => call'.result = FALSE]_vars

\* C36 witness: has_active() is returning true and the state it saw as active
\* has ended in the meantime: no registered state is Pending or Running
C36_Witness ==
    /\ call.op = "has_active"
    /\ call.phase = "return"
    /\ call.result = TRUE
    /\ downloads # <<>>
    /\ ~AnyActive

\* The bytes the routine of task id has put into its file: the chunks counted in
\* written, and the chunk of a write_all that has returned Ok and is not yet counted
InFile(id) ==
    task[id].written + IF task[id].pc = "downloaded_size" THEN task[id].length ELSE 0

\* The longest chunk a read returns
MaxChunk == CHOOSE n \in ChunkLens : \A m \in ChunkLens : m <= n

DashAt(item) == CHOOSE i \in 1..Len(item) : item[i] = "-"
RangeLo(item) == DigitsValue(SubSeq(item, 1, DashAt(item) - 1))
RangeHi(item) == DigitsValue(SubSeq(item, DashAt(item) + 1, Len(item)))

\* C38: for an iterator made with start <= max (chunk >= 1): every item yielded
\* is "lo-hi" in decimal digits with lo <= hi <= max and at most chunk values,
\* the first item begins at start, each next item begins one past the end of the
\* one before, an iterator that has returned None has yielded an item ending
\* exactly at max, and once an item ends at max the next call returns None and
\* yields nothing. An iterator made with start > max yields nothing.
C38_RangesTileStartToMax ==
    /\ [](LET items == range_iter.items
              start == range_iter.starting_value
              max == range_iter.max_length
          IN /\ start > max => items = <<>>
             /\ \A i \in 1..Len(items) :
                  /\ items[i] = format_range(RangeLo(items[i]), RangeHi(items[i]))
                  /\ RangeLo(items[i]) <= RangeHi(items[i])
                  /\ RangeHi(items[i]) <= max
                  /\ RangeHi(items[i]) - RangeLo(items[i]) + 1 <= range_iter.chunk_size
                  /\ RangeLo(items[i]) = IF i = 1 THEN start ELSE RangeHi(items[i - 1]) + 1
             /\ range_iter.none /\ start <= max =>
                  /\ items # <<>>
                  /\ RangeHi(items[Len(items)]) = max)
    /\ [][/\ range_iter.items # <<>>
          /\ RangeHi(range_iter.items[Len(range_iter.items)]) = range_iter.max_length
          /\ range_iter' # range_iter
          => range_iter' = [range_iter EXCEPT !.none = TRUE]]_vars
    /\ [][/\ ~range_iter.none
          /\ range_iter.starting_value <= range_iter.max_length
          /\ \/ range_iter.items = <<>>
             \/ RangeHi(range_iter.items[Len(range_iter.items)]) < range_iter.max_length
          /\ range_iter' # range_iter
          => Len(range_iter'.items) = Len(range_iter.items) + 1]_vars

\* C38 witness: new(2, 11, 3) has yielded "2-4", "5-7", "8-10", "11-11" and then None
C38_Witness ==
    /\ range_iter.starting_value = 2
    /\ range_iter.chunk_size = 3
    /\ range_iter.none
    /\ range_iter.items = << <<"2", "-", "4">>, <<"5", "-", "7">>,
                             <<"8", "-", "1", "0">>, <<"1", "1", "-", "1", "1">> >>

====
